---------------------------- MODULE Spec2Model ----------------------------
(***************************************************************************)
(* Model of oracle_challenge.py: one run of main (collect_prices over the  *)
(* SOURCES registry, build_submission, validate_submission_payload,        *)
(* write_json) and direct calls of build_submission and                    *)
(* validate_submission_payload on bounded inputs.                          *)
(*                                                                         *)
(* Numbers.  A Python float price is modelled by an integer count of       *)
(* price units; Resolution units make 0.000001 USD, the step that          *)
(* round(x, 6) keeps.  A sum of two prices divided by two lands on half    *)
(* units, so medians are carried doubled (in half units).  Only finite     *)
(* prices are modelled (no NaN, no infinity).                              *)
(***************************************************************************)
EXTENDS Integers, Sequences, FiniteSets, TLC

VARIABLES
    mode,           \* "run": a run of main; "build"/"validate": a direct call
    pc,             \* position of the control flow
    min_sources,    \* args.min_sources / the min_sources argument
    idx,            \* collect_prices: index of the current source in SOURCES
    attempts,       \* collect_prices: number of fetch_json calls per source index
    pending,        \* collect_prices: outcome logged but not yet appended
    successes,      \* collect_prices: successes / build_submission: source_points
    failures,       \* collect_prices: failures
    log,            \* events handed to the logger, in order
    collect_status, \* "running", "returned" or "raised"
    raised,         \* class of the exception that left the try body, or "none"
    submission,     \* record returned by build_submission, or the candidate payload
    verdict,        \* validate_submission_payload: "none", "ok" or the error raised
    output,         \* what this run's write_json left in the output file
    exit_code       \* return value of main, -1 while main is running

vars == <<mode, pc, min_sources, idx, attempts, pending, successes, failures,
          log, collect_status, raised, submission, verdict, output, exit_code>>

---------------------------------------------------------------------------
(* Bounds of the model.                                                    *)

\* price units per 0.000001 USD
Resolution == 4
\* largest price, in price units, that a response of an endpoint carries
MaxParsed == 5
\* largest price, in price units, of a source_points argument
MaxPrice == 8
\* longest source_points argument of a direct build_submission call
MaxPoints == 4
\* longest sources list of a candidate payload given to the validator
MaxEntries == 3
\* largest min_sources
MaxMinSources == 3

---------------------------------------------------------------------------
(* round(x, 6).                                                            *)

\* round(x, 6) of the float worth h half units: the nearest multiple of
\* 0.000001 USD, in price units.  When the decimal value lies exactly between
\* two multiples, the result depends on the representation error of the
\* binary float (round(1.5e-06, 6) is 2e-06, round(3.5e-06, 6) is 3e-06), so
\* both neighbours are outcomes.
Round6OfHalves(h) ==
    LET step == 2 * Resolution
        down == (h \div step) * Resolution
        rest == h % step
    IN  IF rest = 0 THEN {down}
        ELSE IF 2 * rest < step THEN {down}
        ELSE IF 2 * rest > step THEN {down + Resolution}
        ELSE {down, down + Resolution}

\* round(float(price), 6) of a price of p price units
Round6(p) == Round6OfHalves(2 * p)

---------------------------------------------------------------------------
(* Decoded JSON values and the Python expressions the parsers apply.       *)

JNum(n) == [type |-> "float", num |-> n]
\* a non-empty string; numeric tells whether float() parses it, num its value
JStr(numeric, n) == [type |-> "str", numeric |-> numeric, num |-> n]
JNull == [type |-> "NoneType"]
JList(items) == [type |-> "list", items |-> items]
\* a dict keeps the insertion order of its keys
JDict(keys, vals) == [type |-> "dict", keys |-> keys, vals |-> vals]

\* the value of an expression, or the exception it raised
Ok(v) == [exc |-> "none", val |-> v]
Raise(e) == [exc |-> e, val |-> JNull]

HasKey(v, k) == \E i \in 1..Len(v.keys) : v.keys[i] = k
ValueAt(v, k) == v.vals[CHOOSE i \in 1..Len(v.keys) : v.keys[i] = k]

\* r[k] for a string key k
GetKey(r, k) ==
    IF r.exc # "none" THEN r
    ELSE IF r.val.type = "dict"
         THEN IF HasKey(r.val, k) THEN Ok(ValueAt(r.val, k)) ELSE Raise("KeyError")
         ELSE Raise("TypeError")

\* r[i] for an integer index i >= 0; indexing a string is not modelled
GetIndex(r, i) ==
    IF r.exc # "none" THEN r
    ELSE CASE r.val.type = "list" ->
                 IF i < Len(r.val.items) THEN Ok(r.val.items[i + 1])
                 ELSE Raise("IndexError")
           [] r.val.type = "dict" -> Raise("KeyError")
           [] r.val.type \in {"float", "NoneType"} -> Raise("TypeError")

\* float(r)
Float(r) ==
    IF r.exc # "none" THEN r
    ELSE CASE r.val.type = "float" -> Ok(r.val.num)
           [] r.val.type = "str" ->
                 IF r.val.numeric THEN Ok(r.val.num) ELSE Raise("ValueError")
           [] OTHER -> Raise("TypeError")

\* bool(v)
Truthy(v) ==
    CASE v.type = "list" -> Len(v.items) > 0
      [] v.type = "dict" -> Len(v.keys) > 0
      [] v.type = "float" -> v.num # 0
      [] v.type = "str" -> TRUE
      [] v.type = "NoneType" -> FALSE

\* payload.get(k): None when the key is absent
DictGet(v, k) == IF HasKey(v, k) THEN ValueAt(v, k) ELSE JNull

parse_coingecko(payload) == Float(GetKey(GetKey(Ok(payload), "near"), "usd"))

parse_coinbase(payload) == Float(GetKey(GetKey(Ok(payload), "data"), "amount"))

parse_binance(payload) == Float(GetKey(Ok(payload), "price"))

parse_kraken(payload) ==
    IF payload.type # "dict" THEN Raise("AttributeError")
    ELSE IF Truthy(DictGet(payload, "error")) THEN Raise("ValueError")
    ELSE LET result == DictGet(payload, "result")
         IN  IF result.type # "dict" \/ ~Truthy(result) THEN Raise("ValueError")
             ELSE Float(GetIndex(GetKey(Ok(result.vals[1]), "c"), 0))

parse_cryptocompare(payload) == Float(GetKey(Ok(payload), "USD"))

\* the registry: names and parsers, in registry order
SOURCES == <<"coingecko", "coinbase", "kraken", "cryptocompare", "binance">>

Parse(name, payload) ==
    CASE name = "coingecko" -> parse_coingecko(payload)
      [] name = "coinbase" -> parse_coinbase(payload)
      [] name = "kraken" -> parse_kraken(payload)
      [] name = "cryptocompare" -> parse_cryptocompare(payload)
      [] name = "binance" -> parse_binance(payload)


---------------------------------------------------------------------------
(* Exceptions.                                                             *)

\* the classes an exception of class e is an instance of
Bases(e) ==
    CASE e = "HTTPError" -> {"HTTPError", "URLError", "OSError"}
      [] e = "URLError" -> {"URLError", "OSError"}
      [] e = "TimeoutError" -> {"TimeoutError", "OSError"}
      [] e = "ConnectionResetError" -> {"ConnectionResetError", "OSError"}
      [] e = "UnicodeDecodeError" -> {"UnicodeDecodeError", "ValueError"}
      [] e = "JSONDecodeError" -> {"JSONDecodeError", "ValueError"}
      [] e = "KeyError" -> {"KeyError", "LookupError"}
      [] e = "IndexError" -> {"IndexError", "LookupError"}
      [] OTHER -> {e}

\* the except clause of collect_prices
CaughtClasses ==
    {"HTTPError", "URLError", "TimeoutError", "ValueError", "KeyError",
     "TypeError", "JSONDecodeError"}

Caught(e) == Bases(e) \cap CaughtClasses # {}

---------------------------------------------------------------------------
(* Responses of the endpoints: what fetch_json raises or returns.          *)

\* failures of urlopen, response.read, body.decode and json.loads; HTTPError
\* is a URLError and takes the same path
FetchErrors ==
    {"URLError", "TimeoutError", "ConnectionResetError", "UnicodeDecodeError",
     "JSONDecodeError"}

\* prices, in price units, that a response carries
ParsedPrices == (-1)..MaxParsed

Shapes ==
    {"coingecko", "coinbase", "binance", "kraken", "cryptocompare"}

BrokenShapes ==
    {"empty_object", "array", "kraken_error", "kraken_empty_result",
     "kraken_no_trade"}

\* the price field of a payload: a price, a non-numeric string or null
Leaves ==
    {<<"price", p>> : p \in ParsedPrices} \cup {<<"text", 0>>, <<"null", 0>>}

Leaf(leaf, asString) ==
    CASE leaf[1] = "price" ->
             IF asString THEN JStr(TRUE, leaf[2]) ELSE JNum(leaf[2])
      [] leaf[1] = "text" -> JStr(FALSE, 0)
      [] leaf[1] = "null" -> JNull

Text == JStr(FALSE, 0)

\* the decoded body of a response
Payload(shape, leaf) ==
    CASE shape = "coingecko" ->
             JDict(<<"near">>, <<JDict(<<"usd">>, <<Leaf(leaf, FALSE)>>)>>)
      [] shape = "coinbase" ->
             JDict(<<"data">>,
                   <<JDict(<<"amount", "base", "currency">>,
                           <<Leaf(leaf, TRUE), Text, Text>>)>>)
      [] shape = "binance" ->
             JDict(<<"symbol", "price">>, <<Text, Leaf(leaf, TRUE)>>)
      [] shape = "kraken" ->
             JDict(<<"error", "result">>,
                   <<JList(<<>>),
                     JDict(<<"NEARUSD">>,
                           <<JDict(<<"c">>,
                                   <<JList(<<Leaf(leaf, TRUE),
                                             JStr(TRUE, 1)>>)>>)>>)>>)
      [] shape = "cryptocompare" -> JDict(<<"USD">>, <<Leaf(leaf, FALSE)>>)
      [] shape = "empty_object" -> JDict(<<>>, <<>>)
      [] shape = "array" -> JList(<<>>)
      [] shape = "kraken_error" -> JDict(<<"error">>, <<JList(<<Text>>)>>)
      [] shape = "kraken_empty_result" ->
             JDict(<<"error", "result">>, <<JList(<<>>), JDict(<<>>, <<>>)>>)
      [] shape = "kraken_no_trade" ->
             JDict(<<"error", "result">>,
                   <<JList(<<>>),
                     JDict(<<"NEARUSD">>,
                           <<JDict(<<"c">>, <<JList(<<>>)>>)>>)>>)

Responses ==
    [err : FetchErrors, shape : {"none"}, leaf : {<<"null", 0>>}]
    \cup [err : {"none"}, shape : Shapes, leaf : Leaves]
    \cup [err : {"none"}, shape : BrokenShapes, leaf : {<<"null", 0>>}]

\* fetch_json followed by source.parser
FetchAndParse(name, resp) ==
    IF resp.err # "none" THEN Raise(resp.err)
    ELSE Parse(name, Payload(resp.shape, resp.leaf))

\* the check of the parsed price in collect_prices
NonPositive(price) == price <= 0

\* the body of the try block up to the timestamp: the parsed price or the
\* exception raised
TryFetch(name, resp) ==
    LET r == FetchAndParse(name, resp)
    IN  IF r.exc = "none" /\ NonPositive(r.val) THEN Raise("ValueError") ELSE r

---------------------------------------------------------------------------
(* Timestamps are texts, modelled as sequences of characters.              *)

\* strftime("%Y-%m-%dT%H:%M:%SZ"), the date and time abridged to two digits
utc_now_iso == <<"0", "0", "Z">>

\* str.endswith
EndsWith(text, c) == Len(text) > 0 /\ text[Len(text)] = c

---------------------------------------------------------------------------
(* Records.  A Python object is written with its type, the keys it holds   *)
(* and a value for every key; the value of an absent key is a filler.      *)

PointKeys == {"api", "price", "timestamp"}

PricePoint(name, price, timestamp) ==
    [type |-> "dict", keys |-> PointKeys, api |-> name, price |-> price,
     timestamp |-> timestamp]

FetchFailure(name, error) == [api |-> name, error |-> error]

required_top_level ==
    {"median_price_usd", "sources", "calculation_method", "calculated_at",
     "code_or_logs"}

NoSubmission ==
    [type |-> "NoneType", keys |-> {}, median_price_usd |-> 0,
     sources_type |-> "NoneType", sources |-> <<>>,
     calculation_method |-> "", calculated_at |-> <<>>, code_or_logs |-> ""]

\* the output file after a write that failed once the file was open and
\* before the JSON object of the record was complete: the file was truncated
\* and holds a strict prefix of the object (possibly empty), which is no JSON
\* document.  A write that fails later, on the final newline, leaves the
\* record itself in the file (see Write)
PartialArtifact == [NoSubmission EXCEPT !.type = "truncated"]

LogEvent(event, name) == [event |-> event, api |-> name]

---------------------------------------------------------------------------
(* build_submission.                                                       *)

RECURSIVE Insert(_, _)
\* x put into the sorted sequence data, before the first larger element
Insert(x, data) ==
    IF Len(data) = 0 THEN <<x>>
    ELSE IF x < Head(data) THEN <<x>> \o data
    ELSE <<Head(data)>> \o Insert(x, Tail(data))

RECURSIVE Sorted(_)
\* sorted(data)
Sorted(data) ==
    IF Len(data) = 0 THEN <<>>
    ELSE Insert(data[Len(data)], Sorted(SubSeq(data, 1, Len(data) - 1)))

\* variant of Median that skips the sort
MedianUnsorted(data) ==
    LET n == Len(data)
        i == n \div 2
    IN  IF n % 2 = 1 THEN 2 * data[i + 1]
        ELSE data[i] + data[i + 1]

\* statistics.median of a non-empty sequence, in half units: data[n // 2] of
\* the sorted data for an odd n, (data[i - 1] + data[i]) / 2 with i = n // 2
\* for an even n (Python indexes from 0)
Median(data) ==
    LET sorted == Sorted(data)
        n == Len(sorted)
        i == n \div 2
    IN  IF n % 2 = 1 THEN 2 * sorted[i + 1]
        ELSE sorted[i] + sorted[i + 1]

\* [float(item["price"]) for item in source_points]
Prices(source_points) ==
    [i \in 1..Len(source_points) |-> source_points[i].price]

\* variant of QuorumFailed that also refuses exactly min entries
QuorumInclusive(source_points, min) == Len(source_points) <= min

\* variant of QuorumFailed that lets one entry too few pass
QuorumOffByOne(source_points, min) == Len(source_points) < min - 1

\* the quorum check
QuorumFailed(source_points, min) == Len(source_points) < min

Submission(median_price, source_points, code_or_logs) ==
    [type |-> "dict", keys |-> required_top_level,
     median_price_usd |-> median_price, sources_type |-> "list",
     sources |-> source_points, calculation_method |-> "median",
     calculated_at |-> utc_now_iso, code_or_logs |-> code_or_logs]

\* the outcomes of build_submission: the exception raised or the record
\* returned, one per outcome of the rounding of the median
build_submission(source_points, code_or_logs, min) ==
    IF QuorumFailed(source_points, min)
    THEN {[exc |-> "RuntimeError", val |-> NoSubmission]}
    ELSE IF Len(source_points) = 0
    THEN {[exc |-> "StatisticsError", val |-> NoSubmission]}
    ELSE {[exc |-> "none", val |-> Submission(m, source_points, code_or_logs)] :
            m \in Round6OfHalves(Median(Prices(source_points)))}

---------------------------------------------------------------------------
(* validate_submission_payload.                                            *)

\* variant of TooFewSources that also refuses exactly min entries
TooFewSourcesInclusive(sources, min) == Len(sources) <= min

\* the check of the length of sources
TooFewSources(sources, min) == Len(sources) < min

\* variant of Seen that forgets the name
SeenForgotten(seen_apis, api_name) == seen_apis

\* seen_apis after the entry named api_name
Seen(seen_apis, api_name) == seen_apis \cup {api_name}

RECURSIVE ValidateSources(_, _)
\* the loop over the entries: "ok", or the check that raised ValueError
ValidateSources(sources, seen_apis) ==
    IF Len(sources) = 0 THEN "ok"
    ELSE LET item == Head(sources)
         IN  IF item.type # "dict" THEN "entry_not_object"
             ELSE IF ~(PointKeys \subseteq item.keys) THEN "entry_missing_key"
             ELSE IF item.api \in seen_apis THEN "duplicate_api"
             ELSE IF item.price <= 0 THEN "non_positive_price"
             ELSE IF ~EndsWith(item.timestamp, "Z") THEN "timestamp_not_utc"
             ELSE ValidateSources(Tail(sources), Seen(seen_apis, item.api))

\* "ok" when the payload passes, else the check that raised ValueError
validate_submission_payload(payload, min) ==
    IF required_top_level \ payload.keys # {} THEN "missing_fields"
    ELSE IF payload.calculation_method # "median" THEN "calculation_method"
    ELSE IF payload.sources_type # "list" \/ TooFewSources(payload.sources, min)
    THEN "too_few_sources"
    ELSE ValidateSources(payload.sources, {})

---------------------------------------------------------------------------
(* A run of main.                                                          *)

NoPending == [kind |-> "none", api |-> "", price |-> 0, error |-> ""]

\* the --code-or-logs argument
CodeOrLogs == "code+logs"

\* successes.append
AppendSuccess(list, name, price, timestamp) ==
    Append(list, PricePoint(name, price, timestamp))

\* variant of AppendFailure that drops the failure
AppendFailureDropped(list, name, error) == list

\* failures.append
AppendFailure(list, name, error) == Append(list, FetchFailure(name, error))

\* variant of AfterValidate that goes on after a rejection
AfterValidateIgnored(v) == "write"

\* main after validate_submission_payload: write_json is reached only when
\* the call returned
AfterValidate(v) == IF v = "ok" THEN "write" ELSE "except"

\* main after parse_args, configure_logger and the first log line
Init ==
    /\ mode = "run"
    /\ pc = "attempt"
    /\ min_sources \in 1..MaxMinSources
    /\ idx = 1
    /\ attempts = [i \in 1..Len(SOURCES) |-> 0]
    /\ pending = NoPending
    /\ successes = <<>>
    /\ failures = <<>>
    /\ log = <<LogEvent("oracle_run_started", "")>>
    /\ collect_status = "running"
    /\ raised = "none"
    /\ submission = NoSubmission
    /\ verdict = "none"
    /\ output = NoSubmission
    /\ exit_code = -1

\* collect_prices, one iteration up to the logger call: fetch, parse, check
\* the price, log the outcome; an exception the except clause does not name
\* leaves collect_prices
Attempt ==
    /\ mode = "run"
    /\ pc = "attempt"
    /\ \E resp \in Responses :
         LET name == SOURCES[idx]
             r == TryFetch(name, resp)
         IN  /\ attempts' = [attempts EXCEPT ![idx] = @ + 1]
             /\ IF r.exc = "none"
                THEN /\ log' = Append(log, LogEvent("api_call_success", name))
                     /\ pending' = [kind |-> "success", api |-> name,
                                    price |-> r.val, error |-> ""]
                     /\ pc' = "append"
                     /\ UNCHANGED <<raised, collect_status>>
                ELSE IF Caught(r.exc)
                THEN /\ log' = Append(log, LogEvent("api_call_failure", name))
                     /\ pending' = [kind |-> "failure", api |-> name,
                                    price |-> 0, error |-> r.exc]
                     /\ pc' = "append"
                     /\ UNCHANGED <<raised, collect_status>>
                ELSE /\ raised' = r.exc
                     /\ collect_status' = "raised"
                     /\ pc' = "except"
                     /\ UNCHANGED <<log, pending>>
    /\ UNCHANGED <<mode, min_sources, idx, successes, failures, submission,
                   verdict, output, exit_code>>

\* collect_prices, the rest of the iteration: append the outcome, take the
\* next source, return after the last one
AppendOutcome ==
    /\ mode = "run"
    /\ pc = "append"
    /\ IF pending.kind = "success"
       THEN /\ \E price \in Round6(pending.price) :
                 successes' =
                     AppendSuccess(successes, pending.api, price, utc_now_iso)
            /\ UNCHANGED failures
       ELSE /\ failures' = AppendFailure(failures, pending.api, pending.error)
            /\ UNCHANGED successes
    /\ pending' = NoPending
    /\ idx' = idx + 1
    /\ IF idx = Len(SOURCES)
       THEN collect_status' = "returned" /\ pc' = "build"
       ELSE collect_status' = collect_status /\ pc' = "attempt"
    /\ UNCHANGED <<mode, min_sources, attempts, log, raised, submission,
                   verdict, output, exit_code>>

\* main: log the end of the collection and call build_submission
Build ==
    /\ mode = "run"
    /\ pc = "build"
    /\ log' = Append(log, LogEvent("oracle_collection_finished", ""))
    /\ \E res \in build_submission(successes, CodeOrLogs, min_sources) :
         IF res.exc = "none"
         THEN submission' = res.val /\ pc' = "validate" /\ UNCHANGED raised
         ELSE raised' = res.exc /\ pc' = "except" /\ UNCHANGED submission
    /\ UNCHANGED <<mode, min_sources, idx, attempts, pending, successes,
                   failures, collect_status, verdict, output, exit_code>>

\* main: call validate_submission_payload on the record just built
Validate ==
    /\ mode = "run"
    /\ pc = "validate"
    /\ LET v == validate_submission_payload(submission, min_sources)
       IN  /\ verdict' = v
           /\ pc' = AfterValidate(v)
           /\ raised' = IF v = "ok" THEN raised ELSE "ValueError"
    /\ UNCHANGED <<mode, min_sources, idx, attempts, pending, successes,
                   failures, log, collect_status, submission, output,
                   exit_code>>

\* main: write_json, that is mkdir, then Path.write_text, which opens the
\* file with truncation and writes the text, the JSON object of the record
\* followed by a newline.  The call returns with the record in the file, or
\* raises OSError: before the file is open (mkdir or open failed) the file is
\* untouched; after it, the file holds the part of the text that was written,
\* a strict prefix of the object (object_failed), or the whole object when
\* only the newline or the close failed (newline_failed), and then the
\* record is read back from the file although the call raised
Write ==
    /\ mode = "run"
    /\ pc = "write"
    /\ \E io \in {"written", "open_failed", "object_failed",
                   "newline_failed"} :
         /\ output' = CASE io = "open_failed" -> output
                        [] io = "object_failed" -> PartialArtifact
                        [] OTHER -> submission
         /\ IF io = "written"
            THEN pc' = "report" /\ UNCHANGED raised
            ELSE pc' = "except" /\ raised' = "OSError"
    /\ UNCHANGED <<mode, min_sources, idx, attempts, pending, successes,
                   failures, log, collect_status, submission, verdict,
                   exit_code>>

\* main: log the written submission, print it and return 0; print raises
\* when the standard output is closed
Report ==
    /\ mode = "run"
    /\ pc = "report"
    /\ log' = Append(log, LogEvent("oracle_submission_written", ""))
    /\ \E io \in {"ok", "BrokenPipeError"} :
         IF io = "ok"
         THEN exit_code' = 0 /\ pc' = "done" /\ UNCHANGED raised
         ELSE raised' = io /\ pc' = "except" /\ UNCHANGED exit_code
    /\ UNCHANGED <<mode, min_sources, idx, attempts, pending, successes,
                   failures, collect_status, submission, verdict, output>>

\* main: the handler of every exception logs the failure and returns 1
Except ==
    /\ mode = "run"
    /\ pc = "except"
    /\ log' = Append(log, LogEvent("oracle_run_failed", ""))
    /\ exit_code' = 1
    /\ pc' = "done"
    /\ UNCHANGED <<mode, min_sources, idx, attempts, pending, successes,
                   failures, collect_status, raised, submission, verdict,
                   output>>

Next ==
    \/ Attempt
    \/ AppendOutcome
    \/ Build
    \/ Validate
    \/ Write
    \/ Report
    \/ Except

Spec == Init /\ [][Next]_vars

---------------------------------------------------------------------------
(* Direct calls of build_submission and validate_submission_payload, as    *)
(* the unit tests make them.                                               *)

\* names of the entries of a source_points argument, by position
InputNames == <<"a", "b", "c", "d", "e", "f">>

NoZ == <<"0", "0">>

\* prices, in price units, of a source_points argument
ArgumentPrices == 0..MaxPrice

\* a source_points argument: entries with distinct names, a timestamp ending
\* in "Z" and the given prices, in the given order
BuildInput(prices) ==
    [i \in 1..Len(prices) |-> PricePoint(InputNames[i], prices[i], utc_now_iso)]

\* entries of a candidate payload: valid entries of three names, and every
\* way the validator rejects one entry
CandidateEntries ==
    {PricePoint(name, Resolution, utc_now_iso) : name \in {"a", "b", "c"}}
    \cup {PricePoint("a", 0, utc_now_iso),
          PricePoint("a", -Resolution, utc_now_iso),
          PricePoint("a", Resolution, NoZ),
          [PricePoint("a", Resolution, utc_now_iso)
              EXCEPT !.keys = {"api", "price"}],
          [PricePoint("a", Resolution, utc_now_iso)
              EXCEPT !.type = "str", !.keys = {}]}

\* a candidate payload: a record of the submission shape, with one defect
\* or none: a calculation_method that is not "median", no calculated_at, a
\* sources that is not a list
Candidate(sources, defect) ==
    LET record == Submission(Resolution, sources, CodeOrLogs)
    IN  CASE defect = "none" -> record
          [] defect = "method" -> [record EXCEPT !.calculation_method = "mean"]
          [] defect = "missing" ->
                 [record EXCEPT !.keys = required_top_level \ {"calculated_at"}]
          [] defect = "not_list" -> [record EXCEPT !.sources_type = "dict"]

Defects == {"none", "method", "missing", "not_list"}

InitCalls ==
    /\ min_sources \in 0..MaxMinSources
    /\ idx = 1
    /\ attempts = [i \in 1..Len(SOURCES) |-> 0]
    /\ pending = NoPending
    /\ failures = <<>>
    /\ log = <<>>
    /\ collect_status = "running"
    /\ raised = "none"
    /\ verdict = "none"
    /\ output = NoSubmission
    /\ exit_code = -1
    /\ \/ /\ mode = "build"
          /\ pc = "call_build"
          /\ \E n \in 0..MaxPoints :
               \E prices \in [1..n -> ArgumentPrices] :
                 successes = BuildInput(prices)
          /\ submission = NoSubmission
       \/ /\ mode = "validate"
          /\ pc = "call_validate"
          /\ successes = <<>>
          /\ \E n \in 0..MaxEntries :
               \E sources \in [1..n -> CandidateEntries] :
                 \E defect \in Defects :
                   submission = Candidate(sources, defect)

\* build_submission(successes, "code+logs", min_sources)
CallBuild ==
    /\ mode = "build"
    /\ pc = "call_build"
    /\ \E res \in build_submission(successes, CodeOrLogs, min_sources) :
         /\ submission' = res.val
         /\ raised' = res.exc
         /\ pc' = IF res.exc = "none" THEN "call_validate" ELSE "returned"
    /\ UNCHANGED <<mode, min_sources, idx, attempts, pending, successes,
                   failures, log, collect_status, verdict, output, exit_code>>

\* validate_submission_payload(submission, min_sources), on the record that
\* build_submission returned or on a candidate payload
CallValidate ==
    /\ mode \in {"build", "validate"}
    /\ pc = "call_validate"
    /\ verdict' = validate_submission_payload(submission, min_sources)
    /\ pc' = "returned"
    /\ UNCHANGED <<mode, min_sources, idx, attempts, pending, successes,
                   failures, log, collect_status, raised, submission, output,
                   exit_code>>

NextCalls ==
    \/ CallBuild
    \/ CallValidate

SpecCalls == InitCalls /\ [][NextCalls]_vars

---------------------------------------------------------------------------
(* Properties.                                                             *)

\* number of entries of list that carry the name
Count(list, name) == Cardinality({i \in 1..Len(list) : list[i].api = name})

\* number of log events of the kind for the name
Logged(event, name) ==
    Cardinality({i \in 1..Len(log) : log[i] = LogEvent(event, name)})

DistinctNames(list) ==
    \A i, j \in 1..Len(list) : list[i].api = list[j].api => i = j

\* the k-th smallest element of data, by counting
KthSmallest(data, k) ==
    CHOOSE v \in {data[i] : i \in 1..Len(data)} :
        /\ Cardinality({i \in 1..Len(data) : data[i] < v}) < k
        /\ Cardinality({i \in 1..Len(data) : data[i] <= v}) >= k

\* the statistical median of a non-empty data, in half units
StandardMedian(data) ==
    LET n == Len(data)
    IN  IF n % 2 = 1 THEN 2 * KthSmallest(data, (n + 1) \div 2)
        ELSE KthSmallest(data, n \div 2) + KthSmallest(data, n \div 2 + 1)

Distance(a, b) == IF a < b THEN b - a ELSE a - b

\* a direct call of build_submission has returned or raised
BuildCalled == mode = "build" /\ pc \in {"call_validate", "returned"}

\* a direct call of build_submission has returned a record
BuildReturned == BuildCalled /\ raised = "none"

\* the record invariant of the data model
RecordInvariant(record) ==
    /\ DistinctNames(record.sources)
    /\ Len(record.sources) >= min_sources

\* C1: collect_prices never raises: whatever way one source's fetch or parse
\* fails, the failure is recorded and collect_prices returns.
C1_CollectNeverRaises == collect_status # "raised"

\* C2: whenever collect_prices returns, every source of the registry has been
\* fetched exactly once and its name appears exactly once in successes or
\* failures, never in both, so the two lengths add up to the number of
\* sources.
C2_OneOutcomePerSource ==
    (mode = "run" /\ collect_status = "returned") =>
        /\ \A i \in 1..Len(SOURCES) :
             /\ attempts[i] = 1
             /\ Count(successes, SOURCES[i]) + Count(failures, SOURCES[i]) = 1
        /\ Len(successes) + Len(failures) = Len(SOURCES)

C2_Witness ==
    /\ mode = "run"
    /\ collect_status = "returned"
    /\ Len(successes) >= 1
    /\ Len(failures) >= 1

\* C3: build_submission raises the quorum error exactly when source_points
\* has fewer than min_sources entries, and then returns no record; with
\* min_sources >= 1 and at least min_sources entries it returns a record.
C3_QuorumExactly ==
    BuildCalled =>
        /\ (raised = "RuntimeError") <=> (Len(successes) < min_sources)
        /\ raised = "RuntimeError" => submission = NoSubmission
        /\ (min_sources >= 1 /\ Len(successes) >= min_sources) =>
               (raised = "none" /\ submission.type = "dict")

C3_Witness ==
    /\ BuildCalled
    /\ Len(successes) = 1
    /\ min_sources = 3
    /\ raised = "RuntimeError"

\* the entries are PricePoints as collect_prices makes them: a positive price
\* that is a multiple of 0.000001 USD
RoundedPrices(list) ==
    \A i \in 1..Len(list) :
        list[i].price > 0 /\ list[i].price % Resolution = 0

\* C4 as stated: for every non-empty sequence of PricePoints that meets the
\* quorum, median_price_usd is the statistical median of the prices (the
\* middle sorted value, or the average of the two middle sorted values) and
\* calculation_method is "median".
C4_MedianExact ==
    (BuildReturned /\ RoundedPrices(successes)) =>
        /\ 2 * submission.median_price_usd = StandardMedian(Prices(successes))
        /\ submission.calculation_method = "median"

\* C4 amended: median_price_usd is the statistical median of the prices
\* rounded to 6 decimal places, that is a multiple of 0.000001 USD at most
\* half of 0.000001 USD away from the median, whatever the order of the
\* entries, and calculation_method is "median".
C4_MedianRounded ==
    BuildReturned =>
        /\ submission.median_price_usd % Resolution = 0
        /\ Distance(2 * submission.median_price_usd,
                    StandardMedian(Prices(successes))) <= Resolution
        /\ submission.calculation_method = "median"

C4_Witness ==
    /\ BuildReturned
    /\ Len(successes) = 4
    /\ successes[1].price < successes[4].price
    /\ successes[4].price < successes[3].price
    /\ successes[3].price < successes[2].price
    /\ 2 * submission.median_price_usd # StandardMedian(Prices(successes))

\* C5: a record that build_submission returns for at least min_sources
\* PricePoints with distinct names, positive prices and timestamps ending in
\* "Z" passes validate_submission_payload with the same min_sources, and
\* after the validation it is still the record that was built.
C5_RoundTrip ==
    (/\ mode = "build"
     /\ pc = "returned"
     /\ raised = "none"
     /\ Len(successes) >= min_sources
     /\ DistinctNames(successes)
     /\ \A i \in 1..Len(successes) :
          successes[i].price > 0 /\ EndsWith(successes[i].timestamp, "Z")) =>
        /\ verdict = "ok"
        /\ submission.sources = successes
        /\ \E res \in build_submission(successes, CodeOrLogs, min_sources) :
             res.exc = "none" /\ res.val = submission

C5_Witness ==
    /\ mode = "build"
    /\ pc = "returned"
    /\ verdict = "ok"
    /\ Len(successes) = 3
    /\ min_sources = 3

\* a quorum error or a schema error has occurred in the run
QuorumOrSchemaError ==
    raised = "RuntimeError" \/ verdict \notin {"none", "ok"}

\* C6: in a run of main the output is written only after build_submission
\* has returned and validate_submission_payload has passed on that same
\* record (what write_json leaves in the file is that record, or a truncated
\* text of it when the write failed); after a quorum error or a schema error
\* nothing is written and main returns 1; main returns 0 only when the
\* validated record has been written.  The converse is not claimed: the
\* record can be in the file while main returns 1, when write_json raised on
\* the final newline or print raised.
C6_WriteAfterValidation ==
    mode = "run" =>
        /\ output # NoSubmission =>
               /\ submission.type = "dict"
               /\ verdict = "ok"
               /\ output \in {submission, PartialArtifact}
        /\ QuorumOrSchemaError => output = NoSubmission
        /\ (QuorumOrSchemaError /\ pc = "done") => exit_code = 1
        /\ exit_code = 0 =>
               (output.type = "dict" /\ verdict = "ok" /\ output = submission)

C6_Witness ==
    /\ mode = "run"
    /\ pc = "done"
    /\ verdict = "non_positive_price"
    /\ raised = "ValueError"
    /\ output = NoSubmission
    /\ exit_code = 1

\* C7: every PricePoint that collect_prices puts in successes carries a
\* price that is strictly greater than 0.
C7_StoredPricePositive ==
    mode = "run" => \A i \in 1..Len(successes) : successes[i].price > 0

\* C8: validate_submission_payload rejects every record in which two source
\* entries carry the same api name, even when the five top-level fields are
\* present, calculation_method is "median", the number of sources meets
\* min_sources and every entry has its three keys, a positive price and a
\* timestamp ending in "Z".
C8_DuplicateRejected ==
    (/\ mode = "validate"
     /\ pc = "returned"
     /\ required_top_level \subseteq submission.keys
     /\ submission.calculation_method = "median"
     /\ submission.sources_type = "list"
     /\ Len(submission.sources) >= min_sources
     /\ \A i \in 1..Len(submission.sources) :
          /\ submission.sources[i].type = "dict"
          /\ PointKeys \subseteq submission.sources[i].keys
          /\ submission.sources[i].price > 0
          /\ EndsWith(submission.sources[i].timestamp, "Z")
     /\ ~DistinctNames(submission.sources)) =>
        verdict \notin {"none", "ok"}

C8_Witness ==
    /\ mode = "validate"
    /\ pc = "returned"
    /\ min_sources = 3
    /\ Len(submission.sources) = 3
    /\ submission.sources[1].api = "a"
    /\ submission.sources[2].api = "a"
    /\ submission.sources[3].api = "b"
    /\ verdict = "duplicate_api"

\* C9: every record that a run creates, and every record it persists, has no
\* two sources entries with the same name and at least min_sources entries,
\* whatever the successes and failures of the sources.  A file left by a
\* failed write holds no record, or the validated record itself.
C9_RecordInvariant ==
    mode = "run" =>
        /\ submission.type = "dict" => RecordInvariant(submission)
        /\ output.type = "dict" => RecordInvariant(output)

C9_Witness ==
    /\ mode = "run"
    /\ output.type = "dict"
    /\ Len(output.sources) = min_sources
    /\ Len(failures) = Len(SOURCES) - min_sources

\* C10: every source produces exactly one log event in collect_prices,
\* api_call_success if it ended as a success and api_call_failure if it ended
\* as a failure, never both and never neither, and the event is emitted
\* before the outcome is appended to successes or failures.
C10_LoggedExactlyOnce ==
    mode = "run" =>
        /\ \A i \in 1..Len(SOURCES) :
             /\ Count(successes, SOURCES[i]) > 0 =>
                    Logged("api_call_success", SOURCES[i]) = 1
             /\ Count(failures, SOURCES[i]) > 0 =>
                    Logged("api_call_failure", SOURCES[i]) = 1
        /\ collect_status # "running" =>
               \A i \in 1..Len(SOURCES) :
                   /\ Logged("api_call_success", SOURCES[i])
                        + Logged("api_call_failure", SOURCES[i]) = 1
                   /\ Logged("api_call_success", SOURCES[i])
                        = Count(successes, SOURCES[i])
                   /\ Logged("api_call_failure", SOURCES[i])
                        = Count(failures, SOURCES[i])

=============================================================================
